---- MODULE Spec2Model ----
(***************************************************************************)
(* Model of the two scripts of the repository:                             *)
(*   get_asteroid_info.py  (the infobox extractor and its batch driver)    *)
(*   read.py               (the mesh bounding-box measurer)                *)
(* Text is modelled as sequences of one-character strings so that          *)
(* str.replace, str.strip, the `in` substring test and str.endswith are    *)
(* computed as Python computes them.                                       *)
(***************************************************************************)
EXTENDS Integers, Sequences, FiniteSets, TLC

\* ------------------------------------------------------------------ bounds
MaxRows == 3        \* <tr> rows in one fetched page (all tables together)
MaxTables == 2      \* <table> elements in one fetched page
MaxSplitRows == 2   \* <tr> rows in a page that has several tables
MaxSubjects == 4    \* length of the prefix of the subject list that is run
MaxFiles == 3       \* entries in the directory listing

\* ------------------------------------------------------------ text helpers
SetMin(S) == CHOOSE x \in S : \A y \in S : x <= y
SetMax(S) == CHOOSE x \in S : \A y \in S : x >= y

\* characters removed by str.strip() with no argument
Whitespace == {" ", "\t", "\n", "\r", "\f"}

\* s.strip()
Strip(s) ==
    LET keep == {i \in 1..Len(s) : s[i] \notin Whitespace}
    IN  IF keep = {} THEN <<>> ELSE SubSeq(s, SetMin(keep), SetMax(keep))

\* s.replace(a, b) for one-character a and b
Replace(s, a, b) == [i \in 1..Len(s) |-> IF s[i] = a THEN b ELSE s[i]]

\* sub in s
Contains(s, sub) ==
    \E i \in 0..(Len(s) - Len(sub)) : SubSeq(s, i + 1, i + Len(sub)) = sub

Lower(s) ==
    [i \in 1..Len(s) |->
        CASE s[i] = "G" -> "g" [] s[i] = "L" -> "l" [] s[i] = "B" -> "b"
          [] OTHER -> s[i]]

\* s.lower().endswith(suf): the suffix test made case-insensitive
EndsWith_IgnoreCase(s, suf) ==
    /\ Len(s) >= Len(suf)
    /\ SubSeq(Lower(s), Len(s) - Len(suf) + 1, Len(s)) = suf

\* s.endswith(suf)
EndsWith(s, suf) ==
    /\ Len(s) >= Len(suf)
    /\ SubSeq(s, Len(s) - Len(suf) + 1, Len(s)) = suf

\* ------------------------------------------------- get_asteroid_info.py
WikiPrefix ==
    <<"h", "t", "t", "p", "s", ":", "/", "/", "e", "n", ".", "w", "i", "k",
      "i", "p", "e", "d", "i", "a", ".", "o", "r", "g", "/", "w", "i", "k",
      "i", "/">>

KeyName == <<"n", "a", "m", "e">>
KeyUrl == <<"u", "r", "l">>

\* the substrings that select an infobox row
Needles ==
    { <<"D", "i", "m", "e", "n", "s", "i", "o", "n", "s">>,
      <<"M", "a", "s", "s">>,
      <<"M", "e", "a", "n", " ", "d", "e", "n", "s", "i", "t", "y">> }

\* the subject list (its first entries)
asteroids_all ==
    << <<"2", "4", "3", " ", "I", "d", "a">>,
       <<"2", "5", "1", "4", "3", " ", "I", "t", "o", "k", "a", "w", "a">>,
       <<"1", "1", "3", "5", "1", " ", "L", "e", "u", "c", "u", "s">>,
       <<"2", "1", " ", "L", "u", "t", "e", "t", "i", "a">>,
       <<"M", "e", "n", "o", "e", "t", "i", "u", "s">>,
       <<"2", "1", "9", "0", "0", " ", "O", "r", "u", "s">> >>

\* A Python dict is a sequence of <<key, value>> pairs with distinct keys,
\* in insertion order.
Keys(d) == [i \in 1..Len(d) |-> d[i][1]]
HasKey(d, k) == \E i \in 1..Len(d) : d[i][1] = k

\* del d[k]; d[k] = v : a present key moves to the end
DictSet_MoveToEnd(d, k, v) ==
    Append(SelectSeq(d, LAMBDA e : e[1] # k), <<k, v>>)

\* d[k] = v : a present key keeps its position and takes the new value,
\* an absent key is appended
DictSet(d, k, v) ==
    IF HasKey(d, k)
    THEN [i \in 1..Len(d) |-> IF d[i][1] = k THEN <<k, v>> ELSE d[i]]
    ELSE Append(d, <<k, v>>)

\* url = f"https://en.wikipedia.org/wiki/{title.replace(' ', '_')}"
Url(title) == WikiPrefix \o Replace(title, " ", "_")

\* A parsed page is the sequence of its <table> elements in document order.
\* A table has its class tokens and the <tr> rows that find_all("tr") yields;
\* a row has th and td, what row.find("th") and row.find("td") yield: <<>>
\* for None and <<text>> for a cell with that text (a cell is truthy even when
\* its text is empty).

\* soup.find("table"): the first table whatever its class
FindInfobox_AnyTable(soup) == IF soup = <<>> THEN <<>> ELSE <<soup[1]>>

\* soup.find("table", {"class": "infobox"}): <<>> for None, else <<table>>
FindInfobox(soup) ==
    LET hits == {t \in 1..Len(soup) : "infobox" \in soup[t].class}
    IN  IF hits = {} THEN <<>> ELSE <<soup[SetMin(hits)]>>

\* the header filter left out
Matches_NoFilter(key) == TRUE

\* any(key in k for k in ...): the substring test the wrong way round
Matches_Reversed(key) == \E k \in Needles : Contains(k, key)

\* any(k in key for k in ["Dimensions", "Mass", "Mean density"])
Matches(key) == \E k \in Needles : Contains(key, k)

\* key = header.text: the header not trimmed
RowStep_RawKey(info, row) ==
    IF row.th # <<>> /\ row.td # <<>>
    THEN LET key == row.th[1]
             val == Strip(row.td[1])
         IN  IF Matches(key) THEN DictSet(info, key, val) ELSE info
    ELSE info

\* one iteration of the loop over infobox.find_all("tr")
RowStep(info, row) ==
    IF row.th # <<>> /\ row.td # <<>>
    THEN LET key == Strip(row.th[1])
             val == Strip(row.td[1])
         IN  IF Matches(key) THEN DictSet(info, key, val) ELSE info
    ELSE info

\* the rows visited last to first
RECURSIVE RowLoop_Reversed(_, _)
RowLoop_Reversed(info, rows) ==
    IF rows = <<>> THEN info
    ELSE RowStep(RowLoop_Reversed(info, Tail(rows)), Head(rows))

\* for row in infobox.find_all("tr"): ...
RECURSIVE RowLoop(_, _)
RowLoop(info, rows) ==
    IF rows = <<>> THEN info
    ELSE RowLoop(RowStep(info, Head(rows)), Tail(rows))

\* get_asteroid_data(title), given the parsed page the fetch returned
get_asteroid_data(title, soup) ==
    LET info == << <<KeyName, title>>, <<KeyUrl, Url(title)>> >>
        infobox == FindInfobox(soup)
    IN  IF infobox = <<>> THEN info ELSE RowLoop(info, infobox[1].rows)

\* ------------------------------------------------------- model inputs
tMassPad == <<" ", "M", "a", "s", "s", "\n">>
tMass == <<"M", "a", "s", "s">>
tDimKm == <<"D", "i", "m", "e", "n", "s", "i", "o", "n", "s", " ", "(", "k", "m", ")">>
tDensity == <<"M", "e", "a", "n", " ", "d", "e", "n", "s", "i", "t", "y">>
tDiscoverer == <<"D", "i", "s", "c", "o", "v", "e", "r", "e", "r">>
tOne == <<"1">>
tTwoPad == <<" ", "2", "\n">>

\* the rows a page may carry
RowOpts ==
    { [th |-> <<tMassPad>>, td |-> <<tOne>>],
      [th |-> <<tMass>>, td |-> <<tTwoPad>>],
      [th |-> <<tDimKm>>, td |-> <<tOne>>],
      [th |-> <<tDensity>>, td |-> <<tTwoPad>>],
      [th |-> <<KeyUrl>>, td |-> <<tOne>>],
      [th |-> <<KeyName>>, td |-> <<tTwoPad>>],
      [th |-> <<tDiscoverer>>, td |-> <<tOne>>],
      [th |-> <<tMass>>, td |-> <<>>],
      [th |-> <<>>, td |-> <<tOne>>] }

\* the class attributes a table may carry
ClassOpts == { {"infobox", "vcard"}, {"wikitable"} }

\* cuts[t] is the number of rows in tables 1..t of a page with n tables and
\* k rows
WellCut(cuts, n, k) ==
    /\ \A t \in 1..(n - 1) : cuts[t] <= cuts[t + 1]
    /\ n = 0 => k = 0
    /\ n > 0 => cuts[n] = k

\* the page whose tables carry the given classes and share out the rows
Page(rows, classes, cuts) ==
    [t \in 1..Len(classes) |->
        [class |-> classes[t],
         rows |-> SubSeq(rows, (IF t = 1 THEN 0 ELSE cuts[t - 1]) + 1, cuts[t])]]

\* the pages a fetch may return: up to MaxTables tables and MaxRows rows, up
\* to MaxSplitRows rows when there are several tables
IsPageOf(soup, n, k) ==
    /\ n >= 2 => k <= MaxSplitRows
    /\ \E rows \in [1..k -> RowOpts], classes \in [1..n -> ClassOpts],
          cuts \in [1..n -> 0..k] :
            /\ WellCut(cuts, n, k)
            /\ soup = Page(rows, classes, cuts)

\* the labels the extractor is called with
Titles == { asteroids_all[1], asteroids_all[5] }

\* the first MaxSubjects entries of the subject list
asteroids == SubSeq(asteroids_all, 1, MaxSubjects)

\* the pages a fetch of the batch may return
BatchPages ==
    { <<>>,
      << [class |-> {"infobox", "vcard"},
          rows |-> << [th |-> <<tMassPad>>, td |-> <<tOne>>] >>] >>,
      << [class |-> {"wikitable"},
          rows |-> << [th |-> <<tMass>>, td |-> <<tOne>>] >>],
         [class |-> {"infobox", "vcard"},
          rows |-> << [th |-> <<tDimKm>>, td |-> <<tTwoPad>>],
                      [th |-> <<tDiscoverer>>, td |-> <<tOne>>] >>] >> }

\* ------------------------------------------------------------- read.py
folder ==
    <<"p", "u", "b", "l", "i", "c", "/", "m", "e", "t", "e", "o", "r", "s">>

GlbSuffix == <<".", "g", "l", "b">>

\* os.path.join(folder, file)
PathJoin(dir, file) == dir \o <<"/">> \o file

\* the entry names a directory may hold
FileNames ==
    { <<"a", ".", "g", "l", "b">>,
      <<"b", ".", "t", "x", "t">>,
      <<"c", ".", "G", "L", "B">>,
      <<"d", ".", "g", "l", "b">>,
      <<"g", "l", "b">> }

\* the bounding boxes a loaded scene may have: <<min corner, max corner>>
MeshBounds ==
    { << <<0, 0, 0>>, <<1, 2, 3>> >>,
      << <<0 - 2, 0 - 1, 0 - 1>>, <<2, 1, 1>> >> }

\* size = bounds[1] - bounds[0]
SizeOf(bounds) == [a \in 1..3 |-> bounds[2][a] - bounds[1][a]]

\* size.max()
MaxDim(size) == SetMax({size[a] : a \in 1..3})

\* ---------------------------------------------------------------- state
VARIABLES
    xPc,        \* extractor call: "idle", "call", "parsed", "returned", "raised"
    xTitle,     \* its argument
    xSoup,      \* the page its fetch yields (parsed)
    xInfo,      \* the record it returned
    aPc,        \* batch: "run", "printed", "aborted"
    aCalls,     \* the labels get_asteroid_data was called with, in order
    aReplies,   \* the pages the successful fetches yielded, in order
    aError,     \* <<>>, or <<label>> once the call for label raised
    results,    \* the list the comprehension has built so far
    stdout,     \* the documents printed by the batch
    bPc,        \* measurer: "start", "loop", "done", "crashed"
    listing,    \* what os.listdir(folder) returned
    bIdx,       \* position of the loop in the listing
    bLoads,     \* the paths trimesh.load was called with, in order
    bFailed,    \* the files whose load or bounds computation raised
    bOut        \* the lines printed by the measurer

xVars == <<xPc, xTitle, xSoup, xInfo>>
aVars == <<aPc, aCalls, aReplies, aError, results, stdout>>
bVars == <<bPc, listing, bIdx, bLoads, bFailed, bOut>>
vars == <<xVars, aVars, bVars>>

\* no extractor call is made on its own
ExtractIdle ==
    /\ xPc = "idle"
    /\ xTitle = <<>>
    /\ xSoup = <<>>
    /\ xInfo = <<>>

\* the batch script starts
BatchStart ==
    /\ aPc = "run"
    /\ aCalls = <<>>
    /\ aReplies = <<>>
    /\ aError = <<>>
    /\ results = <<>>
    /\ stdout = <<>>

\* the measurer script starts
MeshStart ==
    /\ bPc = "start"
    /\ listing = <<>>
    /\ bIdx = 0
    /\ bLoads = <<>>
    /\ bFailed = <<>>
    /\ bOut = <<>>

\* ------------------------------------------------ one extractor call
InitExtract ==
    /\ xPc = "call"
    /\ xTitle \in Titles
    /\ xSoup = <<>>
    /\ xInfo = <<>>
    /\ BatchStart
    /\ MeshStart

\* requests.get returns a page and BeautifulSoup parses it
ExtractFetch ==
    /\ xPc = "call"
    /\ \E n \in 0..MaxTables, k \in 0..MaxRows : IsPageOf(xSoup', n, k)
    /\ xPc' = "parsed"
    /\ UNCHANGED <<xTitle, xInfo, aVars, bVars>>

\* requests.get or the parser raises; nothing is returned
ExtractRaise ==
    /\ xPc = "call"
    /\ xPc' = "raised"
    /\ UNCHANGED <<xTitle, xSoup, xInfo, aVars, bVars>>

\* the record is built from the parsed page and returned
ExtractReturn ==
    /\ xPc = "parsed"
    /\ xInfo' = get_asteroid_data(xTitle, xSoup)
    /\ xPc' = "returned"
    /\ UNCHANGED <<xTitle, xSoup, aVars, bVars>>

NextExtract == ExtractFetch \/ ExtractRaise \/ ExtractReturn

SpecExtract == InitExtract /\ [][NextExtract]_vars

\* -------------------------------------------- the batch of get_asteroid_info.py
InitBatch == ExtractIdle /\ BatchStart /\ MeshStart

\* the extraction error caught per subject and a minimal record kept
BatchRaise_Isolated ==
    /\ aPc = "run"
    /\ Len(results) < Len(asteroids)
    /\ LET a == asteroids[Len(results) + 1]
       IN  /\ aCalls' = Append(aCalls, a)
           /\ aError' = <<a>>
           /\ results' = Append(results, get_asteroid_data(a, <<>>))
           /\ aReplies' = Append(aReplies, <<>>)
    /\ UNCHANGED <<aPc, stdout, xVars, bVars>>

\* the comprehension takes the next subject and its extraction raises: the
\* exception is caught nowhere, the script ends without printing
BatchRaise ==
    /\ aPc = "run"
    /\ Len(results) < Len(asteroids)
    /\ LET a == asteroids[Len(results) + 1]
       IN  /\ aCalls' = Append(aCalls, a)
           /\ aError' = <<a>>
    /\ aPc' = "aborted"
    /\ UNCHANGED <<aReplies, results, stdout, xVars, bVars>>

\* the new record put in front of the list
BatchStep_Prepend ==
    /\ aPc = "run"
    /\ Len(results) < Len(asteroids)
    /\ LET a == asteroids[Len(results) + 1]
       IN  \E soup \in BatchPages :
               /\ aCalls' = Append(aCalls, a)
               /\ aReplies' = Append(aReplies, soup)
               /\ results' = <<get_asteroid_data(a, soup)>> \o results
    /\ UNCHANGED <<aPc, aError, stdout, xVars, bVars>>

\* the comprehension takes the next subject, its extraction returns and the
\* record is appended
BatchStep ==
    /\ aPc = "run"
    /\ Len(results) < Len(asteroids)
    /\ LET a == asteroids[Len(results) + 1]
       IN  \E soup \in BatchPages :
               /\ aCalls' = Append(aCalls, a)
               /\ aReplies' = Append(aReplies, soup)
               /\ results' = Append(results, get_asteroid_data(a, soup))
    /\ UNCHANGED <<aPc, aError, stdout, xVars, bVars>>

\* print(json.dumps(results, ...)): the whole list is one printed document
BatchPrint ==
    /\ aPc = "run"
    /\ Len(results) = Len(asteroids)
    /\ stdout' = Append(stdout, results)
    /\ aPc' = "printed"
    /\ UNCHANGED <<aCalls, aReplies, aError, results, xVars, bVars>>

NextBatch == BatchStep \/ BatchRaise \/ BatchPrint

SpecBatch == InitBatch /\ [][NextBatch]_vars

\* ------------------------------------------------------ the loop of read.py
InitMesh == ExtractIdle /\ BatchStart /\ MeshStart

IsListing(l) == \A i, j \in 1..Len(l) : i # j => l[i] # l[j]

\* os.listdir(folder) returns the entries, each name once, in some order
ListDir ==
    /\ bPc = "start"
    /\ \E n \in 0..MaxFiles : \E l \in [1..n -> FileNames] :
          /\ IsListing(l)
          /\ listing' = l
    /\ bIdx' = 1
    /\ bPc' = "loop"
    /\ UNCHANGED <<bLoads, bFailed, bOut, xVars, aVars>>

\* os.listdir(folder) raises (no such directory): the script ends
ListDirRaise ==
    /\ bPc = "start"
    /\ bPc' = "crashed"
    /\ UNCHANGED <<listing, bIdx, bLoads, bFailed, bOut, xVars, aVars>>

\* an entry without the suffix: the loop goes on to the next entry
SkipEntry ==
    /\ bPc = "loop"
    /\ bIdx <= Len(listing)
    /\ ~EndsWith(listing[bIdx], GlbSuffix)
    /\ bIdx' = bIdx + 1
    /\ UNCHANGED <<bPc, listing, bLoads, bFailed, bOut, xVars, aVars>>

\* a .glb entry loads, and its size line is printed
Measure ==
    /\ bPc = "loop"
    /\ bIdx <= Len(listing)
    /\ EndsWith(listing[bIdx], GlbSuffix)
    /\ LET file == listing[bIdx]
       IN  \E bounds \in MeshBounds :
               /\ bLoads' = Append(bLoads, PathJoin(folder, file))
               /\ bOut' = Append(bOut,
                     [file |-> file, kind |-> "size",
                      size |-> SizeOf(bounds),
                      maxdim |-> MaxDim(SizeOf(bounds))])
    /\ bIdx' = bIdx + 1
    /\ UNCHANGED <<bPc, listing, bFailed, xVars, aVars>>

\* the exception of a .glb entry left uncaught: the script ends
LoadError_Uncaught ==
    /\ bPc = "loop"
    /\ bIdx <= Len(listing)
    /\ EndsWith(listing[bIdx], GlbSuffix)
    /\ LET file == listing[bIdx]
       IN  /\ bLoads' = Append(bLoads, PathJoin(folder, file))
           /\ bFailed' = Append(bFailed, file)
    /\ bPc' = "crashed"
    /\ UNCHANGED <<bIdx, listing, bOut, xVars, aVars>>

\* trimesh.load raises, or the scene has no bounds and the subtraction
\* raises: the except clause prints the error line and the loop goes on
LoadError ==
    /\ bPc = "loop"
    /\ bIdx <= Len(listing)
    /\ EndsWith(listing[bIdx], GlbSuffix)
    /\ LET file == listing[bIdx]
       IN  \E stage \in {"load", "bounds"} :
               /\ bLoads' = Append(bLoads, PathJoin(folder, file))
               /\ bFailed' = Append(bFailed, file)
               /\ bOut' = Append(bOut,
                     [file |-> file, kind |-> "error", e |-> stage])
    /\ bIdx' = bIdx + 1
    /\ UNCHANGED <<bPc, listing, xVars, aVars>>

\* the listing is exhausted: the script ends
Finish ==
    /\ bPc = "loop"
    /\ bIdx > Len(listing)
    /\ bPc' = "done"
    /\ UNCHANGED <<listing, bIdx, bLoads, bFailed, bOut, xVars, aVars>>

NextMesh ==
    ListDir \/ ListDirRaise \/ SkipEntry \/ Measure \/ LoadError \/ Finish

\* every call of the single-threaded loop returns or raises, so the loop
\* keeps stepping
SpecMesh == InitMesh /\ [][NextMesh]_vars /\ WF_vars(NextMesh)

\* ------------------------------------------- properties of one extractor call
Returned == xPc = "returned"

IsInfobox(t) == "infobox" \in xSoup[t].class
HasInfobox == \E t \in 1..Len(xSoup) : IsInfobox(t)

\* the rows of the first table classified as an infobox
TheRows ==
    IF HasInfobox
    THEN xSoup[CHOOSE t \in 1..Len(xSoup) :
                 IsInfobox(t) /\ \A u \in 1..(t - 1) : ~IsInfobox(u)].rows
    ELSE <<>>

\* the row has both cells and its trimmed header contains one of the substrings
Qualifies(row) ==
    /\ row.th # <<>>
    /\ row.td # <<>>
    /\ \E k \in Needles : Contains(Strip(row.th[1]), k)

\* the qualifying rows of the first infobox in row order, each as its trimmed
\* header h and its trimmed data d
QualRows ==
    LET good == SelectSeq(TheRows, Qualifies)
    IN  [r \in 1..Len(good) |->
            [h |-> Strip(good[r].th[1]), d |-> Strip(good[r].td[1])]]

\* the positions in q of the rows headed key
RowsOf(q, key) == {r \in 1..Len(q) : q[r].h = key}

\* the positions in the returned record of the entries keyed key
Entries(key) == {i \in 1..Len(xInfo) : xInfo[i][1] = key}

\* the label with every space replaced by an underscore, after the prefix
ExpectedUrl(u, title) ==
    /\ Len(u) = Len(WikiPrefix) + Len(title)
    /\ SubSeq(u, 1, Len(WikiPrefix)) = WikiPrefix
    /\ \A i \in 1..Len(title) :
          u[Len(WikiPrefix) + i] = (IF title[i] = " " THEN "_" ELSE title[i])

\* C1: the returned record has exactly one entry 'name', equal to the label,
\* and exactly one entry 'url', equal to the wiki prefix followed by the label
\* with spaces replaced by underscores, whatever the page holds.
C1_NameUrl ==
    Returned =>
        /\ Cardinality(Entries(KeyName)) = 1
        /\ Cardinality(Entries(KeyUrl)) = 1
        /\ \A i \in Entries(KeyName) : xInfo[i][2] = xTitle
        /\ \A i \in Entries(KeyUrl) : ExpectedUrl(xInfo[i][2], xTitle)

\* a label with a space was looked up on a page whose infobox has rows headed
\* 'name' and 'url'
C1_Witness ==
    /\ Returned
    /\ \E i \in 1..Len(xTitle) : xTitle[i] = " "
    /\ \E r \in 1..Len(TheRows) :
          TheRows[r].th = <<KeyUrl>> /\ TheRows[r].td # <<>>
    /\ \E r \in 1..Len(TheRows) :
          TheRows[r].th = <<KeyName>> /\ TheRows[r].td # <<>>

\* C2: once a page with no table classified as an infobox has been parsed,
\* the call does not raise: its next step returns a record with exactly the
\* two keys 'name' and 'url'.
C2_NoInfobox ==
    [][(xPc = "parsed" /\ ~HasInfobox) =>
          (xPc' = "returned" /\ Keys(xInfo') = <<KeyName, KeyUrl>>)]_vars

\* a page without infobox whose other table has a selectable row was returned
C2_Witness ==
    /\ Returned
    /\ ~HasInfobox
    /\ \E t \in 1..Len(xSoup) : \E r \in 1..Len(xSoup[t].rows) :
          /\ xSoup[t].rows[r].th = <<tMass>>
          /\ xSoup[t].rows[r].td # <<>>

\* C3 as stated: every qualifying row of the first infobox has an entry keyed
\* by its trimmed header whose value is that row's trimmed data.
C3_AsStated ==
    Returned =>
        LET q == QualRows
        IN  \A r \in 1..Len(q) :
                \E i \in 1..Len(xInfo) :
                    xInfo[i][1] = q[r].h /\ xInfo[i][2] = q[r].d

\* C3 amended: every qualifying row of the first infobox has an entry keyed by
\* its trimmed header, whose value is the trimmed data of the last qualifying
\* row with that trimmed header.
C3_LastRowWins ==
    Returned =>
        LET q == QualRows
        IN  \A r \in 1..Len(q) :
                \E i \in 1..Len(xInfo) :
                    /\ xInfo[i][1] = q[r].h
                    /\ xInfo[i][2] = q[SetMax(RowsOf(q, q[r].h))].d

\* a qualifying row with padded header, a qualifying row whose header only
\* contains the substring and a qualifying row with padded data were extracted
C3_Witness ==
    /\ Returned
    /\ \E r \in 1..Len(TheRows) :
          Qualifies(TheRows[r]) /\ TheRows[r].th = <<tMassPad>>
    /\ \E r \in 1..Len(TheRows) :
          Qualifies(TheRows[r]) /\ TheRows[r].th = <<tDimKm>>
    /\ \E r \in 1..Len(TheRows) :
          Qualifies(TheRows[r]) /\ TheRows[r].td = <<tTwoPad>>

\* C4: every key other than 'name' and 'url' is the trimmed header of a
\* qualifying row of the first infobox.
C4_OnlyQualifying ==
    Returned =>
        LET q == QualRows
        IN  \A i \in 1..Len(xInfo) :
                xInfo[i][1] \notin {KeyName, KeyUrl} => RowsOf(q, xInfo[i][1]) # {}

\* the infobox had a row with a non-matching header, a row with a matching
\* header and no data cell, and a qualifying row with padded header
C4_Witness ==
    /\ Returned
    /\ \E r \in 1..Len(TheRows) : TheRows[r].th = <<tDiscoverer>>
    /\ \E r \in 1..Len(TheRows) : TheRows[r].td = <<>>
    /\ \E r \in 1..Len(TheRows) :
          Qualifies(TheRows[r]) /\ TheRows[r].th = <<tMassPad>>

\* C9: 'name' and 'url' come first, and the other keys are ordered by the
\* first qualifying row that carries each of them.
C9_RowOrder ==
    Returned =>
        LET q == QualRows
            first == [i \in 3..Len(xInfo) |-> SetMin(RowsOf(q, xInfo[i][1]))]
        IN  /\ SubSeq(Keys(xInfo), 1, 2) = <<KeyName, KeyUrl>>
            /\ \A i, j \in 3..Len(xInfo) : i < j => first[i] < first[j]

\* three qualifying rows with three different trimmed headers were extracted
C9_Witness ==
    /\ Returned
    /\ Len(xInfo) = 5
    /\ Len(QualRows) = 3

\* C10: a trimmed header shared by several qualifying rows is one key, valued
\* by the last of them and placed by the first of them; the extra keys number
\* the distinct qualifying trimmed headers.
C10_Duplicates ==
    Returned =>
        LET q == QualRows
            headers(n) == {q[p].h : p \in 1..n}
        IN  /\ \A r \in 1..Len(q) :
                  LET same == RowsOf(q, q[r].h)
                      at == Entries(q[r].h)
                  IN  /\ Cardinality(at) = 1
                      /\ \A i \in at :
                            /\ xInfo[i][2] = q[SetMax(same)].d
                            /\ i = 2 + Cardinality(headers(SetMin(same)))
            /\ Len(xInfo) = 2 + Cardinality(headers(Len(q)))

\* two qualifying rows with the same trimmed header and different data had a
\* qualifying row with another header between them
C10_Witness ==
    /\ Returned
    /\ LET q == QualRows
       IN  \E a, b, c \in 1..Len(q) :
               /\ a < b /\ b < c
               /\ q[a].h = q[c].h
               /\ q[b].h # q[a].h
               /\ q[a].d # q[c].d

\* ------------------------------------------------- properties of the batch
\* C5: when every extraction succeeded, the extractor was called once per
\* subject in list order, and the one printed document has a record per
\* subject, the i-th being the record of the i-th subject.
C5_OrderPreserved ==
    aPc = "printed" =>
        /\ aCalls = asteroids
        /\ Len(stdout) = 1
        /\ Len(stdout[1]) = Len(asteroids)
        /\ \A i \in 1..Len(asteroids) :
              /\ stdout[1][i][1] = <<KeyName, asteroids[i]>>
              /\ stdout[1][i] = get_asteroid_data(asteroids[i], aReplies[i])

\* a batch was printed whose subjects got different pages
C5_Witness ==
    /\ aPc = "printed"
    /\ aReplies[1] # aReplies[2]
    /\ Len(stdout[1][1]) # Len(stdout[1][2])

\* C6: once the extraction of a subject has raised, the batch is aborted,
\* the failing call is the last call made, and nothing is printed, not even
\* the records already extracted.
C6_AbortsWholeBatch ==
    aError # <<>> =>
        /\ aPc = "aborted"
        /\ stdout = <<>>
        /\ Len(aCalls) = Len(results) + 1
        /\ aCalls[Len(aCalls)] = aError[1]

\* an extraction raised after records had been extracted and before the last
\* subject
C6_Witness ==
    /\ aError # <<>>
    /\ Len(results) >= 1
    /\ Len(aCalls) < Len(asteroids)

\* ---------------------------------------------- properties of the measurer
\* the name ends with the four characters ".glb"
IsGlbName(f) ==
    /\ Len(f) >= 4
    /\ f[Len(f) - 3] = "."
    /\ f[Len(f) - 2] = "g"
    /\ f[Len(f) - 1] = "l"
    /\ f[Len(f)] = "b"

LinesOf(f) == {i \in 1..Len(bOut) : bOut[i].file = f}
ErrorLinesOf(f) == {i \in LinesOf(f) : bOut[i].kind = "error"}

\* the entries the loop has passed
Visited == SubSeq(listing, 1, bIdx - 1)

\* C7: a file that raised has exactly one line, an error line naming it; the
\* script never ends inside the loop; and a loop that has started reaches the
\* end of the listing.
C7_ErrorIsolated ==
    /\ [](\A k \in 1..Len(bFailed) :
            /\ Cardinality(ErrorLinesOf(bFailed[k])) = 1
            /\ LinesOf(bFailed[k]) = ErrorLinesOf(bFailed[k]))
    /\ [](bPc = "crashed" => bIdx = 0)
    /\ [](bPc = "done" => Visited = listing)
    /\ ((bPc = "loop") ~> (bPc = "done"))

\* the loop ended after a file had raised and a later file had been measured
C7_Witness ==
    /\ bPc = "done"
    /\ \E i, j \in 1..Len(bOut) :
          /\ i < j
          /\ bOut[i].kind = "error"
          /\ bOut[j].kind = "size"

\* C8: the files loaded are exactly the visited entries whose name ends with
\* ".glb", in listing order, each with one output line; no other entry is
\* loaded, printed or reported as failed.
C8_OnlyGlbSuffix ==
    LET glb == SelectSeq(Visited, IsGlbName)
    IN  /\ bLoads = [i \in 1..Len(glb) |-> folder \o <<"/">> \o glb[i]]
        /\ [i \in 1..Len(bOut) |-> bOut[i].file] = glb
        /\ \A k \in 1..Len(bFailed) : IsGlbName(bFailed[k])

\* the listing a.glb, b.txt, c.GLB (in some order) was processed to the end
C8_Witness ==
    /\ bPc = "done"
    /\ {listing[i] : i \in 1..Len(listing)} =
          { <<"a", ".", "g", "l", "b">>, <<"b", ".", "t", "x", "t">>,
            <<"c", ".", "G", "L", "B">> }
    /\ Len(bLoads) = 1
    /\ Len(bOut) = 1

====
